---- MODULE Spec2Model ----
(***************************************************************************)
(* Model of Capstone/cap.py: the synthetic household dataset generation,   *)
(* the emission calculation, the train/test split, the evaluation loop     *)
(* over six regressors and the selection of the best one.                  *)
(*                                                                         *)
(* Quantities that the script holds as floats with at most three decimals  *)
(* (emission factors, emissions, cylinder counts, noise) are held here in  *)
(* thousandths, as integers: 0.82 is 820, 421.96 is 421960.                *)
(*                                                                         *)
(* The data frame is held column-wise, as pandas holds it: df maps a       *)
(* column name to the sequence of that column's values.                    *)
(***************************************************************************)
EXTENDS Integers, Sequences, FiniteSets, TLC

VARIABLES
    pc,               \* position of the script
    run,              \* number of the current launch of the script
    gen,              \* which pseudo-random stream family the generators follow
    rng_seed,         \* seed of the global numpy generator (0: not seeded yet)
    rng_pos,          \* number of values the global generator has handed out
    draw_log,         \* history: the statements that used the global generator, in
                      \* order, each with the kinds of value it drew, in order
    num_households,
    households_data,
    df,
    noise,
    aqi_value,
    csv_writes,       \* history: the distinct tables written to emission_data_path
                      \* by the launches so far
    X_train,          \* row numbers of the training partition
    X_test,           \* row numbers of the held-out partition
    split_log,        \* history: the distinct partitions made by the launches so far
    model_i,          \* position of the evaluation loop in models
    fitted,           \* per model: how many times fit has completed on it
    results,          \* the results dict, as its items in insertion order
    eval_log,         \* history: the fit/predict calls made, in order
    failed_model,     \* the model whose fit or predict raised ("" when none)
    best_model_name,
    ml_output_df

vars == << pc, run, gen, rng_seed, rng_pos, draw_log, num_households,
           households_data, df, noise, aqi_value, csv_writes, X_train, X_test,
           split_log, model_i, fitted, results, eval_log, failed_model,
           best_model_name, ml_output_df >>

(***************************************************************************)
(* Bounds of the model.                                                    *)
(***************************************************************************)
NumGens == 2        \* stream families explored
MaxRuns == 2        \* launches of the script in one behaviour
MaxMAE == 1         \* a model's mean absolute error is one of 0..MaxMAE
NoiseSpan == 30000  \* a noise draw lies in -NoiseSpan..NoiseSpan (thousandths)

(***************************************************************************)
(* Program constants.                                                      *)
(***************************************************************************)
\* a seed that differs from launch to launch, as a clock-derived seed would
SeedFromRun == 42 + run
SEED == 42
HOUSEHOLDS_LOW == 490
HOUSEHOLDS_HIGH == 550
ELECTRICITY_EF == 820
COOKING_LPG_EF == 2983
TRANSPORT_PETROL_EF == 2310
WASTE_EF == 200
FUEL_EFFICIENCY == 15
CYLINDER_KG == 14
AQI_LOW == 270
AQI_HIGH == 300
RANDOM_STATE == 42
TEST_SIZE_PCT == 20

ID == "ID"
TYPE == "Type"
ELEC == "Electricity (kWh/month)"
COOK == "Cooking Fuel (kg/month)"
CYL == "No of Cylinders"
WATER == "Water Heating (kWh/month)"
WASTE == "Waste (kg/month)"
TRANSPORT == "Private Transportation (km/month)"
ELEC_EM == "Electricity Emissions (kg CO2/month)"
COOK_EM == "Cooking Emissions (kg CO2/month)"
TRANSPORT_EM == "Transportation Emissions (kg CO2/month)"
WASTE_EM == "Waste Emissions (kg CO2/month)"
TOTAL == "Total Emissions (kg CO2/month)"
AQI == "AQI"
PRED == "Predicted Emissions (kg CO2/month)"

columns == << ID, TYPE, ELEC, COOK, CYL, WATER, WASTE, TRANSPORT >>

models == << "Linear Regression", "Decision Tree Regression",
             "Random Forest Regression", "Gradient Boosting Regression",
             "Support Vector Regression", "K-Nearest Neighbors Regression" >>

(***************************************************************************)
(* The pseudo-random generator.  A numpy generator is a deterministic      *)
(* function of its seed and of the number of values already handed out;    *)
(* which function is not modelled bit for bit: the model ranges over the   *)
(* stream families g in 1..NumGens.                                        *)
(***************************************************************************)
Raw(g, s, p) == ((s + g) * (p + 1) * 1009 + g * 104729 + p * p * 31) % 65521

\* np.random.randint(low, high): an integer of [low, high)
RandInt(g, s, p, low, high) == low + (Raw(g, s, p) % (high - low))

\* one value of np.random.normal(0, 10), in thousandths
Normal(g, s, p) == (Raw(g, s, p) % (2 * NoiseSpan + 1)) - NoiseSpan

\* np.random.normal(0, 10, size=n), drawn from position p on
NormalVector(g, s, p, n) == [i \in 1..n |-> Normal(g, s, p + i - 1)]

(***************************************************************************)
(* generate_synthetic_data: one household row.                             *)
(***************************************************************************)
\* the cylinder count cut off after three decimals
NoOfCylindersTruncated(cooking_fuel) == (cooking_fuel * 1000) \div CYLINDER_KG
\* round(cooking_fuel / 14, 3): cooking_fuel * 1000 / 14 is never half-way
\* between two integers (14k + 7 is odd, cooking_fuel * 1000 is even)
NoOfCylinders(cooking_fuel) ==
    (cooking_fuel * 1000 + CYLINDER_KG \div 2) \div CYLINDER_KG

HouseholdRow(i, entity_type, electricity, cooking_fuel, water_heating, waste, transportation) ==
    << <<entity_type, i>>, entity_type, electricity, cooking_fuel,
       NoOfCylinders(cooking_fuel), water_heating, waste, transportation >>

\* the row of loop index i (from 1), its five draws starting at position p
DrawnRow(g, s, p, i) ==
    HouseholdRow(i, "Household",
                 RandInt(g, s, p, 200, 401),
                 RandInt(g, s, p + 1, 5, 31),
                 RandInt(g, s, p + 2, 30, 61),
                 RandInt(g, s, p + 3, 20, 41),
                 RandInt(g, s, p + 4, 300, 601))

\* the draws of lines 24-28, in order, one value each
RowDraws == [kinds |-> << "electricity", "cooking_fuel", "water_heating",
                          "waste", "transportation" >>, n |-> 1]

(***************************************************************************)
(* The data frame and the emission columns.                                *)
(***************************************************************************)
NRows(d) == Len(d[ID])

\* pd.DataFrame(households_data, columns=columns)
DataFrame(data, cols) ==
    [c \in {cols[k] : k \in DOMAIN cols} |->
        LET k == CHOOSE j \in DOMAIN cols : cols[j] = c
        IN  [i \in DOMAIN data |-> data[i][k]]]

WithColumn(d, c, values) == [x \in DOMAIN d \cup {c} |-> IF x = c THEN values ELSE d[x]]

ElectricityEmission(electricity) == electricity * ELECTRICITY_EF
CookingEmission(cooking_fuel) == cooking_fuel * COOKING_LPG_EF
TransportEmission(distance) == (distance * TRANSPORT_PETROL_EF) \div FUEL_EFFICIENCY
WasteEmission(waste) == waste * WASTE_EF

WithEmissions(d) ==
    LET rows == DOMAIN d[ID]
        d1 == WithColumn(d, ELEC_EM, [i \in rows |-> ElectricityEmission(d[ELEC][i])])
        d2 == WithColumn(d1, COOK_EM, [i \in rows |-> CookingEmission(d[COOK][i])])
        d3 == WithColumn(d2, TRANSPORT_EM, [i \in rows |-> TransportEmission(d[TRANSPORT][i])])
    IN  WithColumn(d3, WASTE_EM, [i \in rows |-> WasteEmission(d[WASTE][i])])

WithTotal(d) ==
    WithColumn(d, TOTAL,
        [i \in DOMAIN d[ID] |->
            d[ELEC_EM][i] + d[COOK_EM][i] + d[TRANSPORT_EM][i] + d[WASTE_EM][i]])

\* the noise added twice
WithNoiseTwice(d, v) ==
    WithColumn(d, TOTAL, [i \in DOMAIN d[ID] |-> d[TOTAL][i] + v[i] + v[i]])
WithNoise(d, v) ==
    WithColumn(d, TOTAL, [i \in DOMAIN d[ID] |-> d[TOTAL][i] + v[i]])

WithAQI(d, value) == WithColumn(d, AQI, [i \in DOMAIN d[ID] |-> value])

(***************************************************************************)
(* train_test_split(X, y, test_size=0.2, random_state=42).                 *)
(***************************************************************************)
\* the test size rounded down
NTestFloor(n, test_pct) == (n * test_pct) \div 100
\* n_test = ceil(test_size * n).  The script's 0.2 * n is a float product;
\* for every n of 490..549 it is exact at the multiples of 5 and elsewhere
\* off an integer by at least 0.2, so its ceiling is the exact one.
NTest(n, test_pct) == (n * test_pct + 99) \div 100

\* the shuffle of 1..n made by a generator freshly seeded with random_state:
\* a bijection of 1..n (557 is prime and larger than every n)
Permutation(g, random_state, n) ==
    [i \in 1..n |-> (((i - 1) * 557 + Raw(g, random_state, 0)) % n) + 1]

\* the train rows taken from one place too early in the shuffle
TrainTestSplitOverlap(g, n, test_pct, random_state) ==
    LET perm == Permutation(g, random_state, n)
        n_test == NTest(n, test_pct)
    IN  [n |-> n, random_state |-> random_state,
         test |-> SubSeq(perm, 1, n_test),
         train |-> SubSeq(perm, n_test, n)]

\* the test rows are the first n_test of the shuffle, the train rows the rest
TrainTestSplit(g, n, test_pct, random_state) ==
    LET perm == Permutation(g, random_state, n)
        n_test == NTest(n, test_pct)
    IN  [n |-> n, random_state |-> random_state,
         test |-> SubSeq(perm, 1, n_test),
         train |-> SubSeq(perm, n_test + 1, n)]

(***************************************************************************)
(* Evaluation and selection.                                               *)
(***************************************************************************)
Names(items) == {items[k].name : k \in DOMAIN items}

RECURSIVE MinFromLast(_, _, _)
\* the scan that lets a later key win a tie
MinFromLast(items, k, best) ==
    IF k > Len(items) THEN best
    ELSE MinFromLast(items, k + 1,
                     IF items[k].MAE <= items[best].MAE THEN k ELSE best)

\* min(results, key=lambda x: results[x]["MAE"]): the keys are visited in
\* insertion order and a later key replaces the current one only when its
\* MAE is strictly smaller
RECURSIVE MinFrom(_, _, _)
MinFrom(items, k, best) ==
    IF k > Len(items) THEN best
    ELSE MinFrom(items, k + 1,
                 IF items[k].MAE < items[best].MAE THEN k ELSE best)

MinKeyLast(items) == items[MinFromLast(items, 2, 1)].name
MinKey(items) == items[MinFrom(items, 2, 1)].name

ModelIndex(name) == CHOOSE k \in DOMAIN models : models[k] = name

\* what a fitted model answers for row i of d: a function of the model, of
\* its fitted state and of the row's six features
PredictOne(name, state, d, i) ==
    (d[ELEC][i] + d[COOK][i] + d[WATER][i] + d[WASTE][i] + d[TRANSPORT][i]
        + d[AQI][i]) * 100 + ModelIndex(name) * 10 + state

(***************************************************************************)
(* The script, statement by statement.                                     *)
(***************************************************************************)
\* line 14
Seed ==
    /\ pc = "seed"
    /\ rng_seed' = SEED
    /\ rng_pos' = 0
    /\ draw_log' = Append(draw_log, [kinds |-> << "seed" >>, n |-> 0])
    /\ pc' = "count"
    /\ UNCHANGED << run, gen, num_households, households_data, df, noise,
                    aqi_value, csv_writes, X_train, X_test, split_log, model_i,
                    fitted, results, eval_log, failed_model, best_model_name,
                    ml_output_df >>

\* line 17
DrawCount ==
    /\ pc = "count"
    /\ num_households' = RandInt(gen, rng_seed, rng_pos, HOUSEHOLDS_LOW, HOUSEHOLDS_HIGH)
    /\ rng_pos' = rng_pos + 1
    /\ draw_log' = Append(draw_log, [kinds |-> << "count" >>, n |-> 1])
    /\ pc' = "generate"
    /\ UNCHANGED << run, gen, rng_seed, households_data, df, noise, aqi_value,
                    csv_writes, X_train, X_test, split_log, model_i, fitted,
                    results, eval_log, failed_model, best_model_name,
                    ml_output_df >>

\* the loop pass with waste drawn before water heating
GenerateRecordWasteFirst ==
    /\ pc = "generate"
    /\ Len(households_data) < num_households
    /\ households_data' =
          Append(households_data,
                 HouseholdRow(Len(households_data) + 1, "Household",
                              RandInt(gen, rng_seed, rng_pos, 200, 401),
                              RandInt(gen, rng_seed, rng_pos + 1, 5, 31),
                              RandInt(gen, rng_seed, rng_pos + 3, 30, 61),
                              RandInt(gen, rng_seed, rng_pos + 2, 20, 41),
                              RandInt(gen, rng_seed, rng_pos + 4, 300, 601)))
    /\ rng_pos' = rng_pos + 5
    /\ draw_log' = Append(draw_log,
          [kinds |-> << "electricity", "cooking_fuel", "waste",
                        "water_heating", "transportation" >>, n |-> 1])
    /\ UNCHANGED << pc, run, gen, rng_seed, num_households, df, noise,
                    aqi_value, csv_writes, X_train, X_test, split_log, model_i,
                    fitted, results, eval_log, failed_model, best_model_name,
                    ml_output_df >>

\* lines 22-40: one pass of the loop of generate_synthetic_data
GenerateRecord ==
    /\ pc = "generate"
    /\ Len(households_data) < num_households
    /\ households_data' =
          Append(households_data,
                 DrawnRow(gen, rng_seed, rng_pos, Len(households_data) + 1))
    /\ rng_pos' = rng_pos + 5
    /\ draw_log' = Append(draw_log, RowDraws)
    /\ UNCHANGED << pc, run, gen, rng_seed, num_households, df, noise,
                    aqi_value, csv_writes, X_train, X_test, split_log, model_i,
                    fitted, results, eval_log, failed_model, best_model_name,
                    ml_output_df >>

\* lines 41-50: the loop is over, the rows become the data frame
BuildFrame ==
    /\ pc = "generate"
    /\ Len(households_data) = num_households
    /\ df' = DataFrame(households_data, columns)
    /\ pc' = "emissions"
    /\ UNCHANGED << run, gen, rng_seed, rng_pos, draw_log, num_households,
                    households_data, noise, aqi_value, csv_writes, X_train,
                    X_test, split_log, model_i, fitted, results, eval_log,
                    failed_model, best_model_name, ml_output_df >>

\* lines 60-63
CalculateEmissions ==
    /\ pc = "emissions"
    /\ df' = WithEmissions(df)
    /\ pc' = "total"
    /\ UNCHANGED << run, gen, rng_seed, rng_pos, draw_log, num_households,
                    households_data, noise, aqi_value, csv_writes, X_train,
                    X_test, split_log, model_i, fitted, results, eval_log,
                    failed_model, best_model_name, ml_output_df >>

\* lines 66-71
TotalEmissions ==
    /\ pc = "total"
    /\ df' = WithTotal(df)
    /\ pc' = "noise"
    /\ UNCHANGED << run, gen, rng_seed, rng_pos, draw_log, num_households,
                    households_data, noise, aqi_value, csv_writes, X_train,
                    X_test, split_log, model_i, fitted, results, eval_log,
                    failed_model, best_model_name, ml_output_df >>

\* lines 74-75
AddNoise ==
    /\ pc = "noise"
    /\ noise' = NormalVector(gen, rng_seed, rng_pos, NRows(df))
    /\ rng_pos' = rng_pos + NRows(df)
    /\ draw_log' = Append(draw_log, [kinds |-> << "noise" >>, n |-> NRows(df)])
    /\ df' = WithNoise(df, noise')
    /\ pc' = "aqi"
    /\ UNCHANGED << run, gen, rng_seed, num_households, households_data,
                    aqi_value, csv_writes, X_train, X_test, split_log, model_i,
                    fitted, results, eval_log, failed_model, best_model_name,
                    ml_output_df >>

\* one shared-index draw per household
SimulateAQIPerRow ==
    /\ pc = "aqi"
    /\ aqi_value' = RandInt(gen, rng_seed, rng_pos, AQI_LOW, AQI_HIGH)
    /\ rng_pos' = rng_pos + NRows(df)
    /\ draw_log' = Append(draw_log, [kinds |-> << "aqi" >>, n |-> NRows(df)])
    /\ df' = WithColumn(df, AQI,
                [i \in DOMAIN df[ID] |->
                    RandInt(gen, rng_seed, rng_pos + i - 1, AQI_LOW, AQI_HIGH)])
    /\ pc' = "save"
    /\ UNCHANGED << run, gen, rng_seed, num_households, households_data, noise,
                    csv_writes, X_train, X_test, split_log, model_i, fitted,
                    results, eval_log, failed_model, best_model_name,
                    ml_output_df >>

\* lines 78-80
SimulateAQI ==
    /\ pc = "aqi"
    /\ aqi_value' = RandInt(gen, rng_seed, rng_pos, AQI_LOW, AQI_HIGH)
    /\ rng_pos' = rng_pos + 1
    /\ draw_log' = Append(draw_log, [kinds |-> << "aqi" >>, n |-> 1])
    /\ df' = WithAQI(df, aqi_value')
    /\ pc' = "save"
    /\ UNCHANGED << run, gen, rng_seed, num_households, households_data, noise,
                    csv_writes, X_train, X_test, split_log, model_i, fitted,
                    results, eval_log, failed_model, best_model_name,
                    ml_output_df >>

\* line 84
SaveDataset ==
    /\ pc = "save"
    /\ csv_writes' = csv_writes \cup {df}
    /\ pc' = "split"
    /\ UNCHANGED << run, gen, rng_seed, rng_pos, draw_log, num_households,
                    households_data, df, noise, aqi_value, X_train, X_test,
                    split_log, model_i, fitted, results, eval_log, failed_model,
                    best_model_name, ml_output_df >>

\* lines 88-94
Split ==
    /\ pc = "split"
    /\ LET s == TrainTestSplit(gen, NRows(df), TEST_SIZE_PCT, RANDOM_STATE)
       IN  /\ X_train' = s.train
           /\ X_test' = s.test
           /\ split_log' = split_log \cup {s}
    /\ model_i' = 1
    /\ pc' = "fit"
    /\ UNCHANGED << run, gen, rng_seed, rng_pos, draw_log, num_households,
                    households_data, df, noise, aqi_value, csv_writes, fitted,
                    results, eval_log, failed_model, best_model_name,
                    ml_output_df >>

\* line 109: models[model_i].fit(X_train, y_train) returns
FitModel ==
    /\ pc = "fit"
    /\ LET name == models[model_i]
       IN  /\ fitted' = [fitted EXCEPT ![name] = @ + 1]
           /\ eval_log' = Append(eval_log,
                 [op |-> "fit", model |-> name, data |-> "X_train",
                  state |-> fitted[name] + 1])
    /\ pc' = "score"
    /\ UNCHANGED << run, gen, rng_seed, rng_pos, draw_log, num_households,
                    households_data, df, noise, aqi_value, csv_writes, X_train,
                    X_test, split_log, model_i, results, failed_model,
                    best_model_name, ml_output_df >>

\* line 109: fit raises; nothing catches it and the script ends
FitFails ==
    /\ pc = "fit"
    /\ failed_model' = models[model_i]
    /\ pc' = "aborted"
    /\ UNCHANGED << run, gen, rng_seed, rng_pos, draw_log, num_households,
                    households_data, df, noise, aqi_value, csv_writes, X_train,
                    X_test, split_log, model_i, fitted, results, eval_log,
                    best_model_name, ml_output_df >>

\* lines 110-117: predict on the held-out rows, score, record; then the next
\* model, or line 120 after the last one.  The MAE is any value of
\* 0..MaxMAE; R2, which the script only prints and plots, is recorded as a
\* value that falls as the MAE rises.
ScoreModel ==
    /\ pc = "score"
    /\ LET name == models[model_i]
       IN  /\ eval_log' = Append(eval_log,
                 [op |-> "predict", model |-> name, data |-> "X_test",
                  state |-> fitted[name]])
           /\ \E mae \in 0..MaxMAE :
                 results' = Append(results,
                    [name |-> name, MAE |-> mae, R2 |-> MaxMAE - mae])
    /\ model_i' = model_i + 1
    /\ pc' = IF model_i = Len(models) THEN "select" ELSE "fit"
    /\ UNCHANGED << run, gen, rng_seed, rng_pos, draw_log, num_households,
                    households_data, df, noise, aqi_value, csv_writes, X_train,
                    X_test, split_log, fitted, failed_model, best_model_name,
                    ml_output_df >>

\* line 110: predict raises; nothing catches it and the script ends
PredictFails ==
    /\ pc = "score"
    /\ failed_model' = models[model_i]
    /\ pc' = "aborted"
    /\ UNCHANGED << run, gen, rng_seed, rng_pos, draw_log, num_households,
                    households_data, df, noise, aqi_value, csv_writes, X_train,
                    X_test, split_log, model_i, fitted, results, eval_log,
                    best_model_name, ml_output_df >>

\* lines 120-122
SelectBest ==
    /\ pc = "select"
    /\ best_model_name' = MinKey(results)
    /\ pc' = "predict_all"
    /\ UNCHANGED << run, gen, rng_seed, rng_pos, draw_log, num_households,
                    households_data, df, noise, aqi_value, csv_writes, X_train,
                    X_test, split_log, model_i, fitted, results, eval_log,
                    failed_model, ml_output_df >>

\* the best model fitted again, on the full dataset, before it predicts
PredictAllRefit ==
    /\ pc = "predict_all"
    /\ fitted' = [fitted EXCEPT ![best_model_name] = @ + 1]
    /\ df' = WithColumn(df, PRED,
                [i \in DOMAIN df[ID] |->
                    PredictOne(best_model_name, fitted'[best_model_name], df, i)])
    /\ eval_log' = eval_log \o
          << [op |-> "fit", model |-> best_model_name, data |-> "X",
              state |-> fitted'[best_model_name]],
             [op |-> "predict", model |-> best_model_name, data |-> "X",
              state |-> fitted'[best_model_name]] >>
    /\ pc' = "save_output"
    /\ UNCHANGED << run, gen, rng_seed, rng_pos, draw_log, num_households,
                    households_data, noise, aqi_value, csv_writes, X_train,
                    X_test, split_log, model_i, results, failed_model,
                    best_model_name, ml_output_df >>

\* the best model predicting the held-out rows only
PredictAllHeldOutOnly ==
    /\ pc = "predict_all"
    /\ df' = WithColumn(df, PRED,
                [k \in DOMAIN X_test |->
                    PredictOne(best_model_name, fitted[best_model_name], df, X_test[k])])
    /\ eval_log' = Append(eval_log,
          [op |-> "predict", model |-> best_model_name, data |-> "X_test",
           state |-> fitted[best_model_name]])
    /\ pc' = "save_output"
    /\ UNCHANGED << run, gen, rng_seed, rng_pos, draw_log, num_households,
                    households_data, noise, aqi_value, csv_writes, X_train,
                    X_test, split_log, model_i, fitted, results, failed_model,
                    best_model_name, ml_output_df >>

\* line 125: the best model, as fitted in the loop, predicts every row
PredictAll ==
    /\ pc = "predict_all"
    /\ df' = WithColumn(df, PRED,
                [i \in DOMAIN df[ID] |->
                    PredictOne(best_model_name, fitted[best_model_name], df, i)])
    /\ eval_log' = Append(eval_log,
          [op |-> "predict", model |-> best_model_name, data |-> "X",
           state |-> fitted[best_model_name]])
    /\ pc' = "save_output"
    /\ UNCHANGED << run, gen, rng_seed, rng_pos, draw_log, num_households,
                    households_data, noise, aqi_value, csv_writes, X_train,
                    X_test, split_log, model_i, fitted, results, failed_model,
                    best_model_name, ml_output_df >>

\* lines 128-151: the four-column table that is written out; the plots only
\* read results
SaveOutput ==
    /\ pc = "save_output"
    /\ ml_output_df' = [c \in {ID, TOTAL, PRED, AQI} |-> df[c]]
    /\ pc' = "done"
    /\ UNCHANGED << run, gen, rng_seed, rng_pos, draw_log, num_households,
                    households_data, df, noise, aqi_value, csv_writes, X_train,
                    X_test, split_log, model_i, fitted, results, eval_log,
                    failed_model, best_model_name >>

\* the state of a freshly started interpreter: nothing of an earlier launch
\* is left in memory
Fresh ==
    /\ pc' = "seed"
    /\ rng_seed' = 0
    /\ rng_pos' = 0
    /\ draw_log' = << >>
    /\ num_households' = 0
    /\ households_data' = << >>
    /\ df' = << >>
    /\ noise' = << >>
    /\ aqi_value' = 0
    /\ X_train' = << >>
    /\ X_test' = << >>
    /\ model_i' = 0
    /\ fitted' = [m \in {models[k] : k \in DOMAIN models} |-> 0]
    /\ results' = << >>
    /\ eval_log' = << >>
    /\ failed_model' = ""
    /\ best_model_name' = ""
    /\ ml_output_df' = << >>

\* the script has ended (normally or by an exception) and is launched again
Rerun ==
    /\ pc \in {"done", "aborted"}
    /\ run < MaxRuns
    /\ run' = run + 1
    /\ Fresh
    /\ UNCHANGED << gen, csv_writes, split_log >>

Init ==
    /\ gen \in 1..NumGens
    /\ run = 1
    /\ pc = "seed"
    /\ rng_seed = 0
    /\ rng_pos = 0
    /\ draw_log = << >>
    /\ num_households = 0
    /\ households_data = << >>
    /\ df = << >>
    /\ noise = << >>
    /\ aqi_value = 0
    /\ csv_writes = {}
    /\ X_train = << >>
    /\ X_test = << >>
    /\ split_log = {}
    /\ model_i = 0
    /\ fitted = [m \in {models[k] : k \in DOMAIN models} |-> 0]
    /\ results = << >>
    /\ eval_log = << >>
    /\ failed_model = ""
    /\ best_model_name = ""
    /\ ml_output_df = << >>

Next ==
    \/ Seed
    \/ DrawCount
    \/ GenerateRecord
    \/ BuildFrame
    \/ CalculateEmissions
    \/ TotalEmissions
    \/ AddNoise
    \/ SimulateAQI
    \/ SaveDataset
    \/ Split
    \/ FitModel
    \/ FitFails
    \/ ScoreModel
    \/ PredictFails
    \/ SelectBest
    \/ PredictAll
    \/ SaveOutput
    \/ Rerun

Spec == Init /\ [][Next]_vars

(***************************************************************************)
(* The state in which a launch reaches line 84 with n rows.                *)
(***************************************************************************)
GeneratedRows(g, s, n) == [i \in 1..n |-> DrawnRow(g, s, 1 + 5 * (i - 1), i)]

GeneratedNoise(g, s, n) == NormalVector(g, s, 1 + 5 * n, n)

GeneratedAQI(g, s, n) == RandInt(g, s, 1 + 6 * n, AQI_LOW, AQI_HIGH)

GeneratedFrame(g, s, n) ==
    WithAQI(WithNoise(WithTotal(WithEmissions(
                DataFrame(GeneratedRows(g, s, n), columns))),
                      GeneratedNoise(g, s, n)),
            GeneratedAQI(g, s, n))

GeneratedDraws(n) ==
    [k \in 1..(n + 4) |->
        IF k = 1 THEN [kinds |-> << "seed" >>, n |-> 0]
        ELSE IF k = 2 THEN [kinds |-> << "count" >>, n |-> 1]
        ELSE IF k <= n + 2 THEN RowDraws
        ELSE IF k = n + 3 THEN [kinds |-> << "noise" >>, n |-> n]
        ELSE [kinds |-> << "aqi" >>, n |-> 1]]

(***************************************************************************)
(* The split alone: a launch stands before line 94, for every row count    *)
(* of [490, 550), in a first or a later launch.                            *)
(***************************************************************************)
InitSplit ==
    /\ gen \in 1..NumGens
    /\ run \in 1..MaxRuns
    /\ pc = "split"
    /\ rng_seed = SEED
    /\ num_households \in HOUSEHOLDS_LOW..(HOUSEHOLDS_HIGH - 1)
    /\ rng_pos = 6 * num_households + 2
    /\ draw_log = GeneratedDraws(num_households)
    /\ households_data = GeneratedRows(gen, SEED, num_households)
    /\ df = GeneratedFrame(gen, SEED, num_households)
    /\ noise = GeneratedNoise(gen, SEED, num_households)
    /\ aqi_value = GeneratedAQI(gen, SEED, num_households)
    /\ csv_writes = {df}
    /\ X_train = << >>
    /\ X_test = << >>
    /\ split_log = IF run = 1 THEN {}
                    ELSE {TrainTestSplit(gen, num_households, TEST_SIZE_PCT, RANDOM_STATE)}
    /\ model_i = 0
    /\ fitted = [m \in {models[k] : k \in DOMAIN models} |-> 0]
    /\ results = << >>
    /\ eval_log = << >>
    /\ failed_model = ""
    /\ best_model_name = ""
    /\ ml_output_df = << >>

NextSplit == Split

SpecSplit == InitSplit /\ [][NextSplit]_vars

(***************************************************************************)
(* The emission calculation alone: a frame of one household whose raw      *)
(* fields are drawn from small sets stands before line 60.                 *)
(***************************************************************************)
CalcElectricity == {200, 350, 400}
CalcCookingFuel == {5, 20, 30}
CalcWaterHeating == {30, 60}
CalcWaste == {20, 30, 40}
CalcTransportation == {300, 450, 600}

InitCalc ==
    /\ gen \in 1..NumGens
    /\ run = 1
    /\ pc = "emissions"
    /\ rng_seed = SEED
    /\ rng_pos = 6
    /\ draw_log = << [kinds |-> << "seed" >>, n |-> 0],
                      [kinds |-> << "count" >>, n |-> 1], RowDraws >>
    /\ num_households = 1
    /\ \E e \in CalcElectricity, c \in CalcCookingFuel, h \in CalcWaterHeating,
          w \in CalcWaste, t \in CalcTransportation :
            households_data = << HouseholdRow(1, "Household", e, c, h, w, t) >>
    /\ df = DataFrame(households_data, columns)
    /\ noise = << >>
    /\ aqi_value = 0
    /\ csv_writes = {}
    /\ X_train = << >>
    /\ X_test = << >>
    /\ split_log = {}
    /\ model_i = 0
    /\ fitted = [m \in {models[k] : k \in DOMAIN models} |-> 0]
    /\ results = << >>
    /\ eval_log = << >>
    /\ failed_model = ""
    /\ best_model_name = ""
    /\ ml_output_df = << >>

NextCalc ==
    \/ CalculateEmissions
    \/ TotalEmissions

SpecCalc == InitCalc /\ [][NextCalc]_vars

(***************************************************************************)
(* Properties.                                                             *)
(***************************************************************************)
\* generation is finished: the shared index value has been assigned
Generated ==
    pc \in {"save", "split", "fit", "score", "select", "predict_all",
            "save_output", "done", "aborted"}

CountKind(log, kind) ==
    Cardinality({k \in DOMAIN log : log[k].kinds = << kind >>})
Range(f) == {f[k] : k \in DOMAIN f}

\* the launch has ended
Ended == pc \in {"done", "aborted"}

\* the k-th drawing statement of a launch with n households when the shared
\* index value is drawn before the noise vector
ClaimedDrawAt(k, n) ==
    IF k = 1 THEN [kinds |-> << "count" >>, n |-> 1]
    ELSE IF k <= n + 1 THEN
        [kinds |-> << "electricity", "cooking_fuel", "water_heating", "waste",
                      "transportation" >>, n |-> 1]
    ELSE IF k = n + 2 THEN [kinds |-> << "aqi" >>, n |-> 1]
    ELSE [kinds |-> << "noise" >>, n |-> n]

\* the same when the noise vector is drawn before the shared index value
ActualDrawAt(k, n) ==
    IF k <= n + 1 THEN ClaimedDrawAt(k, n)
    ELSE IF k = n + 2 THEN [kinds |-> << "noise" >>, n |-> n]
    ELSE [kinds |-> << "aqi" >>, n |-> 1]

\* C1 as stated: when the launch has ended the draws made since the seeding
\* are the entity count, then per record electricity, cooking fuel, water
\* heating, waste, transportation, then the shared index value, and only
\* then the noise vector of one value per record.
C1_SharedValueBeforeNoise ==
    Ended =>
       /\ Len(draw_log) = num_households + 4
       /\ \A k \in 2..Len(draw_log) :
             draw_log[k] = ClaimedDrawAt(k - 1, num_households)

\* C1 amended: the draws are consumed in the order entity count; per record
\* electricity, cooking fuel, water heating, waste, transportation; then the
\* noise vector of one value per record; and only after that the shared
\* index value, one draw of [270, 300).  While the dataset is generated the
\* draws made since the seeding are a prefix of that order; they are all of
\* it when generation is finished and still when the launch has ended.
C1_NoiseBeforeSharedValue ==
    /\ pc \in {"seed", "count"} => Len(draw_log) <= 1
    /\ (~Generated \/ pc = "save" \/ Ended) =>
          \A k \in 2..Len(draw_log) :
             /\ k <= num_households + 4
             /\ draw_log[k] = ActualDrawAt(k - 1, num_households)
    /\ Generated =>
          /\ Len(draw_log) = num_households + 4
          /\ rng_pos = 6 * num_households + 2
          /\ aqi_value \in 270..299
          /\ Len(noise) = NRows(df)
          /\ NRows(df) = num_households

C1_Witness == pc = "done" /\ Len(draw_log) = NRows(df) + 4

\* C2 as stated: electricity 350, cooking fuel 20, transport distance 450
\* and waste 30 give the emissions 287.0, 59.66, 69.3 and 6.0, the cylinder
\* count 1.429 and a base total of 422.0.
C2_BaseTotal422 ==
    (pc = "noise" /\ df[ELEC][1] = 350 /\ df[COOK][1] = 20
        /\ df[TRANSPORT][1] = 450 /\ df[WASTE][1] = 30) =>
       /\ df[ELEC_EM][1] = 287000
       /\ df[COOK_EM][1] = 59660
       /\ df[TRANSPORT_EM][1] = 69300
       /\ df[WASTE_EM][1] = 6000
       /\ df[CYL][1] = 1429
       /\ df[TOTAL][1] = 422000

\* C2 amended: the same inputs give the emissions 287.0, 59.66, 69.3 and
\* 6.0, the cylinder count 1.429 and a base total of 421.96, the sum of the
\* four emissions.
C2_BaseTotal421_96 ==
    (pc = "noise" /\ df[ELEC][1] = 350 /\ df[COOK][1] = 20
        /\ df[TRANSPORT][1] = 450 /\ df[WASTE][1] = 30) =>
       /\ df[ELEC_EM][1] = 287000
       /\ df[COOK_EM][1] = 59660
       /\ df[TRANSPORT_EM][1] = 69300
       /\ df[WASTE_EM][1] = 6000
       /\ df[CYL][1] = 1429
       /\ df[TOTAL][1] = 421960

C2_Witness ==
    /\ pc = "noise"
    /\ df[ELEC][1] = 350 /\ df[COOK][1] = 20
    /\ df[TRANSPORT][1] = 450 /\ df[WASTE][1] = 30

\* C3: when the noise has been added, and still when the launch has ended,
\* every record's stored total is electricity * 0.82 + cooking fuel * 2.983
\* + (distance / 15) * 2.31 + waste * 0.2 plus that record's own value of
\* the noise vector; the noise vector is drawn by one statement of the
\* launch, one value per record.
C3_TotalIsBasePlusNoiseOnce ==
    /\ (pc = "aqi" \/ Generated) =>
          /\ CountKind(draw_log, "noise") = 1
          /\ Len(noise) = NRows(df)
          /\ Len(df[TOTAL]) = NRows(df)
    /\ (pc \in {"aqi", "save"} \/ Ended) =>
          \A i \in DOMAIN df[ID] :
             15 * (df[TOTAL][i] - noise[i]) =
                15 * (df[ELEC][i] * 820 + df[COOK][i] * 2983 + df[WASTE][i] * 200)
                   + df[TRANSPORT][i] * 2310

C3_Witness ==
    /\ pc = "done"
    /\ \E i, j \in DOMAIN df[ID] : noise[i] > 0 /\ noise[j] < 0

\* C4 as stated: when the fit or the predict of one candidate has failed,
\* every candidate declared after it is still fitted and scored and has its
\* metrics in the results.
C4_LaterCandidatesStillScored ==
    pc = "aborted" =>
       \A k \in DOMAIN models :
          k > ModelIndex(failed_model) =>
             /\ models[k] \in Names(results)
             /\ fitted[models[k]] = 1

\* C5: the selected candidate is one of the recorded results, its MAE is <=
\* that of every evaluated candidate, and every candidate declared before it
\* has a strictly larger MAE (the earliest of the minimal ones is chosen);
\* the results are recorded in declaration order.
C5_EarliestMinimumMAE ==
    pc \in {"predict_all", "save_output", "done"} =>
       /\ [k \in DOMAIN results |-> results[k].name] = models
       /\ best_model_name \in Names(results)
       /\ LET b == ModelIndex(best_model_name)
          IN  /\ \A k \in DOMAIN results : results[b].MAE <= results[k].MAE
              /\ \A k \in 1..(b - 1) : results[k].MAE > results[b].MAE

C5_Witness ==
    /\ pc = "done"
    /\ LET b == ModelIndex(best_model_name)
       IN  /\ b > 1
           /\ \E k \in (b + 1)..Len(results) : results[k].MAE = results[b].MAE

\* the calls of the evaluation loop over all six models
ExpectedEvaluation ==
    [j \in 1..(2 * Len(models)) |->
        IF j % 2 = 1
        THEN [op |-> "fit", model |-> models[(j + 1) \div 2],
              data |-> "X_train", state |-> 1]
        ELSE [op |-> "predict", model |-> models[j \div 2],
              data |-> "X_test", state |-> 1]]

\* C6: the fit and predict calls made so far are always a prefix of: fit on
\* the training partition then predict on the held-out partition, for each
\* candidate in declaration order, then one predict of the best candidate on
\* the full dataset.  No candidate is fitted twice, and a launch that runs
\* to its end has made all of these calls, the last one on the fitted state
\* that the best candidate's held-out predict used.
C6_FitOnceScoreOnceNoRefit ==
    /\ Len(eval_log) <= 2 * Len(models) + 1
    /\ \A j \in DOMAIN eval_log :
          IF j <= 2 * Len(models)
          THEN eval_log[j] = ExpectedEvaluation[j]
          ELSE /\ best_model_name \in Range(models)
               /\ eval_log[j] = [op |-> "predict", model |-> best_model_name,
                                 data |-> "X",
                                 state |-> eval_log[2 * ModelIndex(best_model_name)].state]
    /\ \A k \in DOMAIN models : fitted[models[k]] <= 1
    /\ pc \in {"save_output", "done"} =>
          /\ Len(eval_log) = 2 * Len(models) + 1
          /\ \A k \in DOMAIN models : fitted[models[k]] = 1

C6_Witness == pc = "done" /\ best_model_name = models[4]

\* C7: the predicted-emission column exists only once the selector has run
\* and then holds one value for every row, training and held-out alike; and
\* once generation is finished no step of the launch changes the dataset,
\* except the one step that adds that column and leaves every other column
\* as it was.
C7_PredictionAppendedOnce ==
    /\ [](PRED \in DOMAIN df =>
            /\ pc \in {"save_output", "done"}
            /\ best_model_name \in Range(models)
            /\ DOMAIN df[PRED] = DOMAIN df[ID]
            /\ DOMAIN df[PRED] = Range(X_train) \cup Range(X_test)
            /\ NRows(df) = num_households)
    /\ [][(Generated /\ run' = run) =>
            \/ df' = df
            \/ /\ PRED \notin DOMAIN df
               /\ DOMAIN df' = DOMAIN df \cup {PRED}
               /\ \A c \in DOMAIN df : df'[c] = df[c]]_vars

C7_Witness == pc = "done" /\ PRED \in DOMAIN df /\ Len(df[PRED]) >= HOUSEHOLDS_LOW

\* C8: from its assignment to the end of the launch the shared index value
\* of every record is the one value of [270, 300) that the launch drew, in
\* exactly one draw of one value.
C8_SharedIndexValueIdentical ==
    AQI \in DOMAIN df =>
       /\ Generated
       /\ aqi_value \in 270..299
       /\ DOMAIN df[AQI] = DOMAIN df[ID]
       /\ \A i \in DOMAIN df[AQI] : df[AQI][i] = aqi_value
       /\ CountKind(draw_log, "aqi") = 1
       /\ [kinds |-> << "aqi" >>, n |-> 1] \in Range(draw_log)

C8_Witness == pc = "done" /\ NRows(df) >= HOUSEHOLDS_LOW /\ AQI \in DOMAIN df

\* C9: all launches of the script write the same dataset (same rows, same
\* value in every field, same shared index value), and in each launch the
\* generator is seeded once, before its first draw, and never again.
C9_SameSeedSameDataset ==
    /\ \A a, b \in csv_writes : a = b
    /\ (Generated /\ pc # "save") =>
          \E t \in csv_writes : \A c \in DOMAIN t : t[c] = df[c]
    /\ CountKind(draw_log, "seed") <= 1
    /\ draw_log # << >> => draw_log[1].kinds = << "seed" >> /\ rng_seed = 42

C9_Witness == run >= 2 /\ pc = "done" /\ csv_writes # {}

\* C10: for every row count of [490, 550) the split puts each row in exactly
\* one of the two partitions, |train| + |test| is the row count, |test| is
\* 0.2 * rows rounded to an integer less than 1 away from it, and every
\* launch over the same rows with the same seed makes the same split.
C10_SplitSizes ==
    pc = "fit" =>
       LET n == NRows(df)
       IN  /\ n \in 490..549
           /\ Range(X_train) \cup Range(X_test) = 1..n
           /\ Range(X_train) \cap Range(X_test) = {}
           /\ Cardinality(Range(X_train)) = Len(X_train)
           /\ Cardinality(Range(X_test)) = Len(X_test)
           /\ Len(X_train) + Len(X_test) = n
           /\ 5 * Len(X_test) - n \in -4..4
           /\ \A s \in split_log : s.test = X_test /\ s.train = X_train

C10_Witness ==
    /\ pc = "fit"
    /\ NRows(df) % 5 # 0
    /\ run >= 2

====
